---- MODULE Spec2Model ----
(***************************************************************************)
(* The letter store of retromail (digital-mail-club): the request handler  *)
(* of api/letters.js in its three revisions                                *)
(*   part_000  "Working version for Supabase"                              *)
(*   part_001  "Optimized for Supabase"                                    *)
(*   part_002  "Updated with Vercel Postgres"                              *)
(* against the tables of sql/schema.sql.  A step of the model is one SQL   *)
(* statement executed by the store, followed by the handler's synchronous  *)
(* JavaScript up to its next await (or its response).                      *)
(***************************************************************************)
EXTENDS Integers, Sequences, FiniteSets, Bags, TLC

\* ------------------------------------------------------------------ bounds
MaxReqs == 3
TickStep == 30
MaxTime == 60

\* ------------------------------------------------------- program constants
MaxAttempts == 10
ErrThrowAttempts == 5
MaxSubject == 200
MaxContent == 5000
MaxSender == 100
TTLDays == 30
CodeLen == 6

\* the handler invocations that may be in flight together
Procs == {1, 2}
Versions == {"part_000", "part_001", "part_002"}

\* ----------------------------------------------------------------- strings
\* A JavaScript string value is kept as its leading whitespace, its core (from
\* the first to the last non-whitespace character) and its trailing
\* whitespace; txt names the text.  def = FALSE is undefined.
Str(t, a, b, c) == [def |-> TRUE, txt |-> t, pre |-> a, body |-> b, post |-> c]

Undefined == [def |-> FALSE, txt |-> "", pre |-> 0, body |-> 0, post |-> 0]

Length(s) == s.pre + s.body + s.post

Min(a, b) == IF a < b THEN a ELSE b

Trim(s) == Str(s.txt, 0, s.body, 0)

Substring(s, n) ==
    LET a == Min(s.pre, n)
        b == Min(s.body, n - a)
        c == Min(s.post, n - a - b)
    IN  Str(s.txt, a, b, c)

\* JavaScript truthiness of a string-or-undefined value
Truthy(s) == s.def /\ Length(s) > 0

\* !x?.trim()
BlankAfterTrim(s) == ~s.def \/ Length(Trim(s)) = 0

Placeholder == Str("Anonymous Friend", 0, 16, 0)

\* ------------------------------------------------------------------- codes
\* A code is a sequence of one-character strings.
Upper36 ==
    {"A","B","C","D","E","F","G","H","I","J","K","L","M","N","O","P","Q","R",
     "S","T","U","V","W","X","Y","Z","0","1","2","3","4","5","6","7","8","9"}

ToUpperChar(c) ==
    CASE c = "a" -> "A"
      [] c = "b" -> "B"
      [] c = "z" -> "Z"
      [] OTHER -> c

ToUpperCase(s) == [i \in 1..Len(s) |-> ToUpperChar(s[i])]

\* /^[A-Z0-9]{6}$/.test(s)
CodeRegex(s) == Len(s) = CodeLen /\ \A i \in 1..Len(s) : s[i] \in Upper36

Repeat(c, n) == [i \in 1..n |-> c]

\* the characters generateCode is let to draw in the model
DrawChars == {"A", "7"}

generateCode == {Repeat(c, CodeLen) : c \in DrawChars}

NoCode == <<>>

\* ------------------------------------------------------------------ errors
\* A thrown error: the Postgres fault code (or "" when the error has none)
\* and its message.
\* the texts with which the store reports that it cannot be reached
StoreMessages ==
    {"connection failure",
     "password authentication failed for user admin at db.internal:5432"}

UniqueViolation ==
    [code |-> "23505",
     message |-> "duplicate key value violates unique constraint"]

ValueTooLong ==
    [code |-> "22001", message |-> "value too long for type character varying"]

Exhausted(v) ==
    [code |-> "",
     message |-> IF v = "part_002" THEN "Unable to generate unique code"
                 ELSE "Unable to generate unique code after 10 attempts"]

CheckFailed == [code |-> "", message |-> "Database error while generating code"]

\* error.message.includes(part), for the messages and parts of the handlers
Includes(message, part) ==
    CASE part = "Unable to generate unique code" ->
           message \in {"Unable to generate unique code",
                        "Unable to generate unique code after 10 attempts"}
      [] part = "duplicate key" ->
           message = "duplicate key value violates unique constraint"
      [] OTHER -> FALSE

\* --------------------------------------------------------------- responses
\* success is "true", "false" or "none" (the body has no success field).
NoResp ==
    [status |-> 0, success |-> "none", error |-> "", message |-> "",
     errcode |-> "", code |-> NoCode, id |-> 0, subject |-> Undefined,
     content |-> Undefined, senderName |-> Undefined, readCount |-> 0,
     dateCreated |-> 0, expiresAt |-> 0]

\* a failure body of part_000 carries success: false, the others do not
Failure(v, status, error) ==
    [NoResp EXCEPT !.status = status,
                   !.success = IF v = "part_000" THEN "false" ELSE "none",
                   !.error = error]

ConnFailResponse(e) ==
    [NoResp EXCEPT !.status = 500, !.success = "false",
                   !.error = "Database connection failed",
                   !.message = e.message]

\* CatchResponse that does not tell a unique violation from other errors
CatchResponseGeneric(v, e) == Failure(v, 500, "Internal server error")

\* the handler's outer catch
CatchResponse(v, e) ==
    CASE v = "part_000" ->
           IF e.code = "23505"
           THEN Failure(v, 409, "Code collision detected, please try again")
           ELSE [Failure(v, 500, "Internal server error") EXCEPT
                    !.message = e.message,
                    !.errcode = IF e.code = "" THEN "UNKNOWN" ELSE e.code]
      [] v = "part_001" ->
           IF e.code = "23505"
           THEN Failure(v, 500, "Code collision detected, please try again")
           ELSE IF Includes(e.message, "Unable to generate unique code")
           THEN Failure(v, 500,
                        "System is busy generating codes, please try again")
           ELSE [Failure(v, 500, "Internal server error. Please try again.")
                    EXCEPT !.errcode = IF e.code = "" THEN "UNKNOWN" ELSE e.code]
      [] OTHER ->
           IF Includes(e.message, "Unable to generate unique code")
           THEN Failure(v, 500, "System is busy, please try again")
           ELSE IF Includes(e.message, "duplicate key")
           THEN Failure(v, 500, "Code collision detected, please try again")
           ELSE Failure(v, 500, "Internal server error")

NotFoundResponse(v) ==
    Failure(v, 404, "Letter not found. It may have expired or never existed.")

\* ---------------------------------------------------------------- requests
Request(m, s, c, n, k) ==
    [method |-> m, subject |-> s, content |-> c, senderName |-> n, code |-> k]

NoReq == Request("", Undefined, Undefined, Undefined, NoCode)

\* ------------------------------------------------------------------- state
VARIABLES
    ver,       \* the revision of the handler that is deployed
    now,       \* the store's clock, NOW(), in days
    dbUp,      \* the store is reachable
    letters,   \* the rows of table letters
    nextId,    \* the SERIAL sequence of letters.id
    stats,     \* table stats: metric -> value
    pending,   \* statements issued and not awaited, not yet executed
    reqCount,  \* requests started so far
    proc,      \* per request handler: its position and locals
    hist,      \* per stored letter: what created it and how often it was read
    tally,     \* history: the inserts and the lookups that succeeded so far
    fault      \* the message of the store's error while it is unreachable

vars ==
    <<ver, now, dbUp, letters, nextId, stats, pending, reqCount, proc, hist,
      tally, fault>>

\* the error a statement throws while the store is unreachable
StoreFault == [code |-> "08006", message |-> fault]

NoTally == [creates |-> 0, fetches |-> 0, late |-> {}]

NoRow ==
    [id |-> 0, code |-> NoCode, subject |-> Undefined, content |-> Undefined,
     sender_name |-> Undefined, created_at |-> 0, expires_at |-> 0,
     read_count |-> 0, last_read_at |-> -1]

\* The locals of a handler invocation.  The g_ fields are history only: no
\* guard or assignment of the handler reads them.
IdleProc ==
    [pc |-> "idle", req |-> NoReq, code |-> NoCode, attempts |-> 0,
     letter |-> NoRow, resp |-> NoResp,
     g_draws |-> 0, g_checks |-> 0, g_hadTaken |-> FALSE, g_hadError |-> FALSE,
     g_last |-> "none", g_chk |-> NoCode, g_gen |-> "none", g_ins |-> "none",
     g_added |-> 0, g_seen |-> "none", g_at |-> 0, g_first |-> FALSE,
     g_made |-> NoRow, g_from |-> NoReq, g_nth |-> 0, g_solo |-> FALSE,
     g_upd |-> "none", g_cl |-> "none", g_swept |-> 0]

\* ------------------------------------------------- the handler, locally
Respond(pr, r) == [pr EXCEPT !.pc = "done", !.resp = r]

\* an error thrown inside the handler's try block
Throw(v, pr, e) == Respond(pr, CatchResponse(v, e))

\* POST validation: the error message, or "" when the input passes
ValidatePost(v, subject, content) ==
    IF (IF v = "part_002"
        THEN ~Truthy(subject) \/ ~Truthy(content)
        ELSE BlankAfterTrim(subject) \/ BlankAfterTrim(content))
    THEN "Subject and content are required"
    ELSE IF Length(subject) > MaxSubject
    THEN "Subject must be 200 characters or less"
    ELSE IF Length(content) > MaxContent
    THEN "Content must be 5000 characters or less"
    ELSE ""

\* (senderName || 'Anonymous Friend').trim().substring(0, 100)
CleanSenderName(v, senderName) ==
    LET given == IF Truthy(senderName) THEN senderName ELSE Placeholder
    IN  IF v = "part_002" THEN Trim(given)
        ELSE Substring(Trim(given), MaxSender)

\* code = generateCode(); attempts++; then the existence check is awaited
GenDraw(pr) ==
    {[pr EXCEPT !.pc = "check", !.code = c, !.attempts = @ + 1,
                !.g_draws = @ + 1] : c \in generateCode}

\* after the do-while loop of generateUniqueCode
AfterLoop(v, pr) ==
    IF pr.attempts >= MaxAttempts
    THEN {[Throw(v, pr, Exhausted(v)) EXCEPT !.g_gen = "exhausted"]}
    ELSE {[pr EXCEPT !.pc = "insert", !.g_gen = "returned"]}

\* LoopWhile with the bound off by one: } while (attempts <= 10)
LoopWhileInclusive(v, pr) ==
    IF pr.attempts <= MaxAttempts THEN GenDraw(pr) ELSE AfterLoop(v, pr)

\* } while (attempts < 10)
LoopWhile(v, pr) ==
    IF pr.attempts < MaxAttempts THEN GenDraw(pr) ELSE AfterLoop(v, pr)

\* AfterCheck with a catch block that leaves the loop: an unchecked code
\* is returned
AfterCheckBreakOnError(v, pr, outcome) ==
    IF outcome = "taken" THEN LoopWhile(v, pr) ELSE AfterLoop(v, pr)

\* the body of the loop after the existence check came back as outcome:
\* "free" (no row), "taken" (a row) or "error" (the query threw)
AfterCheck(v, pr, outcome) ==
    CASE outcome = "free" -> AfterLoop(v, pr)
      [] outcome = "taken" -> LoopWhile(v, pr)
      [] OTHER ->
           CASE v = "part_000" ->
                  IF pr.attempts >= ErrThrowAttempts
                  THEN {[Throw(v, pr, StoreFault) EXCEPT !.g_gen = "error"]}
                  ELSE LoopWhile(v, pr)
             [] v = "part_001" ->
                  {[Throw(v, pr, CheckFailed) EXCEPT !.g_gen = "error"]}
             [] OTHER ->
                  {[Throw(v, pr, StoreFault) EXCEPT !.g_gen = "error"]}

PostDispatch(v, pr) ==
    LET e == ValidatePost(v, pr.req.subject, pr.req.content)
    IN  IF e # "" THEN {Respond(pr, Failure(v, 400, e))} ELSE GenDraw(pr)

\* GET validation of the code parameter: the error message, or ""
ValidateGet(v, code) ==
    IF code = NoCode THEN "Code parameter is required"
    ELSE IF v = "part_002"
    THEN IF Len(code) # CodeLen
         THEN "Invalid code format - must be 6 characters" ELSE ""
    ELSE IF ~CodeRegex(ToUpperCase(code))
         THEN "Invalid code format - must be 6 alphanumeric characters" ELSE ""

\* DELETE validation of the code parameter: the error message, or ""
ValidateDelete(v, code) ==
    IF v = "part_002"
    THEN IF code = NoCode THEN "Code parameter is required" ELSE ""
    ELSE IF code = NoCode \/ ~CodeRegex(ToUpperCase(code))
         THEN "Valid 6-character code is required" ELSE ""

GetDispatch(v, pr) ==
    LET e == ValidateGet(v, pr.req.code)
    IN  IF e # "" THEN {Respond(pr, Failure(v, 400, e))}
        ELSE {[pr EXCEPT !.pc = "lookup"]}

DeleteDispatch(v, pr) ==
    LET e == ValidateDelete(v, pr.req.code)
    IN  IF e # "" THEN {Respond(pr, Failure(v, 400, e))}
        ELSE {[pr EXCEPT !.pc = "delete"]}

\* if (req.method === 'POST') ... else if 'GET' ... else if 'DELETE' ... else
Dispatch(v, pr) ==
    CASE pr.req.method = "POST" -> PostDispatch(v, pr)
      [] pr.req.method = "GET" -> GetDispatch(v, pr)
      [] pr.req.method = "DELETE" -> DeleteDispatch(v, pr)
      [] OTHER ->
           {Respond(pr, Failure(v, 405,
                                IF v = "part_000" THEN "Method PUT not allowed"
                                ELSE "Method not allowed"))}

\* the handler up to its first awaited statement
Entry(v, pr) ==
    CASE v = "part_000" -> {[pr EXCEPT !.pc = "conn"]}
      [] v = "part_001" -> {[pr EXCEPT !.pc = "cleanup"]} \cup Dispatch(v, pr)
      [] OTHER -> {[pr EXCEPT !.pc = "cleanup"]}

CreatedResponse(pr, id) ==
    [NoResp EXCEPT !.status = 201, !.success = "true",
                   !.message = "Letter sent successfully!",
                   !.code = pr.code, !.id = id]

\* LetterResponse that returns the count it read, without its own read
LetterResponseStale(v, l) ==
    [NoResp EXCEPT !.status = 200, !.success = "true", !.id = l.id,
                   !.code = l.code, !.subject = l.subject,
                   !.content = l.content, !.senderName = l.sender_name,
                   !.dateCreated = l.created_at,
                   !.readCount = l.read_count,
                   !.expiresAt = IF v = "part_002" THEN 0 ELSE l.expires_at]

\* the letter snapshot of a GET: readCount is letter.read_count + 1
LetterResponse(v, l) ==
    [NoResp EXCEPT !.status = 200, !.success = "true", !.id = l.id,
                   !.code = l.code, !.subject = l.subject,
                   !.content = l.content, !.senderName = l.sender_name,
                   !.dateCreated = l.created_at,
                   !.readCount = l.read_count + 1,
                   !.expiresAt = IF v = "part_002" THEN 0 ELSE l.expires_at]

\* ------------------------------------------------------------- the store
\* Active with the comparison off by one: expires_at >= NOW()
ActiveInclusive(r, t) == r.expires_at >= t

\* WHERE code = c AND expires_at > NOW()
Active(r, t) == r.expires_at > t

\* CleanupFilter with the comparison off by one: expires_at <= NOW()
CleanupFilterInclusive(v, r, t) ==
    r.expires_at <= t /\ (v = "part_001" => r.created_at < t - 1)

\* the WHERE clause of cleanupExpiredLetters
CleanupFilter(v, r, t) ==
    r.expires_at < t /\ (v = "part_001" => r.created_at < t - 1)

\* Sweep that removes one expired letter per run
SweepOne(v, up, rows, t) ==
    LET old == {r \in rows : CleanupFilter(v, r, t)}
    IN  IF up /\ old # {} THEN rows \ {CHOOSE r \in old : TRUE} ELSE rows

\* the rows left by the DELETE of cleanupExpiredLetters; when the store is
\* unreachable the statement fails and nothing is removed
Sweep(v, up, rows, t) ==
    IF up THEN {r \in rows : ~CleanupFilter(v, r, t)} ELSE rows

\* StatIncrement that writes a value computed by the handler
StatSetOne(st, metric) == [st EXCEPT ![metric] = 1]

\* UPDATE stats SET value = value + 1 WHERE metric = ...
StatIncrement(st, metric) == [st EXCEPT ![metric] = @ + 1]

\* a letters table whose code column has no UNIQUE constraint
NoUniqueConstraint(rows, row) == FALSE

\* UNIQUE (code) of schema.sql
ViolatesUnique(rows, row) == \E r \in rows : r.code = row.code

\* VARCHAR(200) subject and VARCHAR(100) sender_name of schema.sql
ViolatesLength(row) ==
    Length(row.subject) > MaxSubject \/ Length(row.sender_name) > MaxSender

\* NewRow with a read_count that starts at 1
NewRowCounted(v, pr, id, t) ==
    [id |-> id, code |-> pr.code, subject |-> Trim(pr.req.subject),
     content |-> Trim(pr.req.content),
     sender_name |-> CleanSenderName(v, pr.req.senderName),
     created_at |-> t, expires_at |-> t + TTLDays, read_count |-> 1,
     last_read_at |-> -1]

\* INSERT INTO letters (code, subject, content, sender_name, expires_at)
NewRow(v, pr, id, t) ==
    [id |-> id, code |-> pr.code, subject |-> Trim(pr.req.subject),
     content |-> Trim(pr.req.content),
     sender_name |-> CleanSenderName(v, pr.req.senderName),
     created_at |-> t, expires_at |-> t + TTLDays, read_count |-> 0,
     last_read_at |-> -1]

\* SetReadCount without its WHERE clause: every row is updated
SetReadCountAll(rows, i, n, t) ==
    {[r EXCEPT !.read_count = n, !.last_read_at = t] : r \in rows}

\* SetReadCount that also renews the letter's expiry
SetReadCountRenew(rows, i, n, t) ==
    {IF r.id = i
     THEN [r EXCEPT !.read_count = n, !.last_read_at = t,
                    !.expires_at = t + TTLDays]
     ELSE r : r \in rows}

\* UPDATE letters SET read_count = n, last_read_at = NOW() WHERE id = i
SetReadCount(rows, i, n, t) ==
    {IF r.id = i THEN [r EXCEPT !.read_count = n, !.last_read_at = t] ELSE r
       : r \in rows}

\* BumpReadCount that counts one read twice
BumpReadCountTwice(rows, i, t) ==
    {IF r.id = i THEN [r EXCEPT !.read_count = @ + 2, !.last_read_at = t]
     ELSE r : r \in rows}

\* UPDATE letters SET read_count = read_count + 1, ... WHERE id = i
BumpReadCount(rows, i, t) ==
    {IF r.id = i THEN [r EXCEPT !.read_count = @ + 1, !.last_read_at = t]
     ELSE r : r \in rows}

Ids(rows) == {r.id : r \in rows}

Restrict(h, rows) == [i \in Ids(rows) |-> h[i]]

\* history: a read-count update for id i is executed on rows; when no row
\* has that id it is noted with the codes that are stored at that time
NoteLate(t, i, rows) ==
    IF i \in Ids(rows) THEN t
    ELSE [t EXCEPT !.late = @ \cup {[id |-> i,
                                     codes |-> {r.code : r \in rows}]}]

\* a statement issued without await: it runs later, or never
ReadUpdate(i, n) == [kind |-> "read", id |-> i, value |-> n, metric |-> ""]

StatUpdate(metric) == [kind |-> "stat", id |-> 0, value |-> 0, metric |-> metric]

\* Issue that sends the statement twice
IssueTwice(bag, u) == bag (+) SetToBag({u}) (+) SetToBag({u})

Issue(bag, u) == bag (+) SetToBag({u})

Retire(bag, u) == bag (-) SetToBag({u})

\* ----------------------------------------------------------------- actions
SetProc(p, np) == proc' = [proc EXCEPT ![p] = np]

\* a client sends request r; the handler runs to its first await
Start(p, r) ==
    /\ proc[p].pc \in {"idle", "done"}
    /\ reqCount < MaxReqs
    /\ reqCount' = reqCount + 1
    /\ \E np \in Entry(ver, [IdleProc EXCEPT !.req = r]) :
          SetProc(p, np)
    /\ UNCHANGED <<fault, tally, ver, now, dbUp, letters, nextId, stats, pending, hist>>

\* Conn that goes on to the method dispatch when the connection test fails
ConnIgnored(p) ==
    /\ proc[p].pc = "conn"
    /\ \E np \in Dispatch(ver, proc[p]) : SetProc(p, np)
    /\ UNCHANGED <<fault, tally, ver, now, dbUp, letters, nextId, stats, pending,
                   reqCount, hist>>

\* await sql`SELECT 1` (part_000)
Conn(p) ==
    /\ proc[p].pc = "conn"
    /\ IF dbUp
       THEN \E np \in Dispatch(ver, proc[p]) : SetProc(p, np)
       ELSE SetProc(p, Respond(proc[p], ConnFailResponse(StoreFault)))
    /\ UNCHANGED <<fault, tally, ver, now, dbUp, letters, nextId, stats, pending, reqCount,
                   hist>>

\* Cleanup without the try/catch of cleanupExpiredLetters: a failure of the
\* delete reaches the handler's outer catch
CleanupRaises(p) ==
    /\ proc[p].pc = "cleanup"
    /\ LET kept == Sweep(ver, dbUp, letters, now)
           pr == [proc[p] EXCEPT
                    !.g_cl = IF dbUp THEN "ok" ELSE "failed",
                    !.g_swept = Cardinality(letters) - Cardinality(kept)]
       IN  /\ letters' = kept
           /\ hist' = Restrict(hist, kept)
           /\ IF dbUp
              THEN \E np \in Dispatch(ver, pr) : SetProc(p, np)
              ELSE SetProc(p, Throw(ver, pr, StoreFault))
    /\ UNCHANGED <<fault, tally, ver, now, dbUp, nextId, stats, pending, reqCount>>

\* await cleanupExpiredLetters() (part_001, part_002): a failure is caught
Cleanup(p) ==
    /\ proc[p].pc = "cleanup"
    /\ LET kept == Sweep(ver, dbUp, letters, now)
           pr == [proc[p] EXCEPT
                    !.g_cl = IF dbUp THEN "ok" ELSE "failed",
                    !.g_swept = Cardinality(letters) - Cardinality(kept)]
       IN  /\ letters' = kept
           /\ hist' = Restrict(hist, kept)
           /\ \E np \in Dispatch(ver, pr) : SetProc(p, np)
    /\ UNCHANGED <<fault, tally, ver, now, dbUp, nextId, stats, pending, reqCount>>

\* await sql`SELECT 1 FROM letters WHERE code = ${code} LIMIT 1`
Check(p) ==
    /\ proc[p].pc = "check"
    /\ LET outcome == IF ~dbUp THEN "error"
                      ELSE IF \E r \in letters : r.code = proc[p].code
                      THEN "taken" ELSE "free"
           pr == [proc[p] EXCEPT
                    !.g_checks = @ + 1,
                    !.g_last = outcome,
                    !.g_chk = proc[p].code,
                    !.g_hadTaken = @ \/ outcome = "taken",
                    !.g_hadError = @ \/ outcome = "error"]
       IN  \E np \in AfterCheck(ver, pr, outcome) : SetProc(p, np)
    /\ UNCHANGED <<fault, tally, ver, now, dbUp, letters, nextId, stats, pending, reqCount,
                   hist>>

\* what the INSERT statement does: "fault", "toolong", "dup" or "ok"
InsertOutcome(up, rows, row) ==
    IF ~up THEN "fault"
    ELSE IF ViolatesLength(row) THEN "toolong"
    ELSE IF ViolatesUnique(rows, row) THEN "dup"
    ELSE "ok"

\* const result = await sql`INSERT INTO letters ... RETURNING id, code,
\* created_at`, then the total_letters update and the 201 response
Insert(p) ==
    /\ proc[p].pc = "insert"
    /\ LET row == NewRow(ver, proc[p], nextId, now)
           out == InsertOutcome(dbUp, letters, row)
           \* attempts is a local of generateUniqueCode, which has returned
           after == IF out = "ok" THEN letters \cup {row} ELSE letters
           pr == [proc[p] EXCEPT !.attempts = 0, !.g_draws = 0, !.g_checks = 0,
                                 !.g_hadTaken = FALSE, !.g_hadError = FALSE,
                                 !.g_last = "none", !.g_chk = NoCode,
                                 !.g_ins = out,
                                 !.g_made = IF out = "ok" THEN row ELSE NoRow,
                                 !.g_added = Cardinality(after)
                                             - Cardinality(letters)]
       IN  /\ nextId' = IF out = "fault" THEN nextId ELSE nextId + 1
           /\ letters' = after
           /\ hist' = IF out = "ok"
                      THEN [i \in Ids(letters') |->
                              IF i = row.id
                              THEN [req |-> proc[p].req, row |-> row,
                                    lookups |-> 0, readers |-> {}]
                              ELSE hist[i]]
                      ELSE hist
           /\ CASE out = "fault" ->
                     /\ SetProc(p, Throw(ver, pr, StoreFault))
                     /\ UNCHANGED pending
                [] out = "toolong" ->
                     /\ SetProc(p, Throw(ver, pr, ValueTooLong))
                     /\ UNCHANGED pending
                [] out = "dup" ->
                     /\ SetProc(p, Throw(ver, pr, UniqueViolation))
                     /\ UNCHANGED pending
                [] OTHER ->
                     IF ver = "part_002"
                     THEN /\ SetProc(p, [pr EXCEPT !.pc = "stat_letters",
                                                   !.letter = row])
                          /\ UNCHANGED pending
                     ELSE /\ SetProc(p, Respond(pr, CreatedResponse(pr, row.id)))
                          /\ pending' = Issue(pending,
                                                StatUpdate("total_letters"))
    /\ tally' = IF InsertOutcome(dbUp, letters,
                                  NewRow(ver, proc[p], nextId, now)) = "ok"
                THEN [tally EXCEPT !.creates = @ + 1] ELSE tally
    /\ UNCHANGED <<fault, ver, now, dbUp, stats, reqCount>>

\* part_002: try { await sql`UPDATE stats ... 'total_letters'` } catch
StatLetters(p) ==
    /\ proc[p].pc = "stat_letters"
    /\ stats' = IF dbUp THEN StatIncrement(stats, "total_letters") ELSE stats
    /\ SetProc(p, Respond([proc[p] EXCEPT
                              !.g_upd = IF dbUp THEN "ok" ELSE "failed"],
                           CreatedResponse(proc[p], proc[p].letter.id)))
    /\ UNCHANGED <<fault, tally, ver, now, dbUp, letters, nextId, pending, reqCount, hist>>

\* SelectActive that looks the code up as it was sent
SelectActiveExact(rows, code, t) ==
    {r \in rows : r.code = code /\ Active(r, t)}

\* SELECT ... FROM letters WHERE code = ${code.toUpperCase()} AND
\* expires_at > NOW()
SelectActive(rows, code, t) ==
    {r \in rows : r.code = ToUpperCase(code) /\ Active(r, t)}

\* Lookup that counts a read before it looks at the result of the SELECT
LookupCounting(p) ==
    /\ proc[p].pc = "lookup"
    /\ LET c == ToUpperCase(proc[p].req.code)
           phys == {r \in letters : r.code = c}
           seen == IF ~dbUp THEN "fault"
                   ELSE IF phys = {} THEN "absent"
                   ELSE IF \A r \in phys : r.expires_at <= now THEN "expired"
                   ELSE "active"
           first == /\ dbUp
                    /\ phys # {}
                    /\ \A r \in phys :
                          r.created_at = now /\ hist[r.id].lookups = 0
           found == SelectActive(letters, proc[p].req.code, now)
       IN  IF ~dbUp
           THEN /\ SetProc(p, Throw(ver, [proc[p] EXCEPT !.g_seen = seen,
                                                          !.g_at = now],
                                    StoreFault))
                /\ UNCHANGED <<pending, hist>>
           ELSE IF found = {}
           THEN /\ SetProc(p, Respond([proc[p] EXCEPT !.g_seen = seen,
                                                      !.g_at = now,
                                                      !.g_first = first],
                                      NotFoundResponse(ver)))
                /\ pending' = Issue(pending, StatUpdate("total_reads"))
                /\ UNCHANGED hist
           ELSE LET l == CHOOSE r \in found : TRUE
                    h == [hist[l.id] EXCEPT !.lookups = @ + 1,
                                            !.readers = @ \cup {p}]
                    pr == [proc[p] EXCEPT !.g_seen = seen, !.g_at = now,
                                          !.g_first = first,
                                          !.g_made = h.row,
                                          !.g_from = h.req,
                                          !.g_nth = h.lookups,
                                          !.g_solo = (h.readers = {p}),
                                          !.letter = l]
                IN  /\ hist' = [hist EXCEPT ![l.id] = h]
                    /\ IF ver = "part_002"
                       THEN /\ SetProc(p, [pr EXCEPT !.pc = "upd_read"])
                            /\ UNCHANGED pending
                       ELSE /\ SetProc(p, Respond(pr, LetterResponse(ver, l)))
                            /\ pending' =
                                 Issue(Issue(pending,
                                             ReadUpdate(l.id, l.read_count + 1)),
                                       StatUpdate("total_reads"))
    /\ tally' = IF dbUp /\ SelectActive(letters, proc[p].req.code, now) # {}
                THEN [tally EXCEPT !.fetches = @ + 1] ELSE tally
    /\ UNCHANGED <<fault, ver, now, dbUp, letters, nextId, stats, reqCount>>

\* const result = await sql`SELECT ...`, then the non-awaited updates and
\* the 200 response (part_000, part_001) or the awaited update (part_002)
Lookup(p) ==
    /\ proc[p].pc = "lookup"
    /\ LET c == ToUpperCase(proc[p].req.code)
           phys == {r \in letters : r.code = c}
           seen == IF ~dbUp THEN "fault"
                   ELSE IF phys = {} THEN "absent"
                   ELSE IF \A r \in phys : r.expires_at <= now THEN "expired"
                   ELSE "active"
           first == /\ dbUp
                    /\ phys # {}
                    /\ \A r \in phys :
                          r.created_at = now /\ hist[r.id].lookups = 0
           found == SelectActive(letters, proc[p].req.code, now)
       IN  IF ~dbUp
           THEN /\ SetProc(p, Throw(ver, [proc[p] EXCEPT !.g_seen = seen,
                                                          !.g_at = now],
                                    StoreFault))
                /\ UNCHANGED <<pending, hist>>
           ELSE IF found = {}
           THEN /\ SetProc(p, Respond([proc[p] EXCEPT !.g_seen = seen,
                                                      !.g_at = now,
                                                      !.g_first = first],
                                      NotFoundResponse(ver)))
                /\ UNCHANGED <<pending, hist>>
           ELSE LET l == CHOOSE r \in found : TRUE
                    h == [hist[l.id] EXCEPT !.lookups = @ + 1,
                                            !.readers = @ \cup {p}]
                    pr == [proc[p] EXCEPT !.g_seen = seen, !.g_at = now,
                                          !.g_first = first,
                                          !.g_made = h.row,
                                          !.g_from = h.req,
                                          !.g_nth = h.lookups,
                                          !.g_solo = (h.readers = {p}),
                                          !.letter = l]
                IN  /\ hist' = [hist EXCEPT ![l.id] = h]
                    /\ IF ver = "part_002"
                       THEN /\ SetProc(p, [pr EXCEPT !.pc = "upd_read"])
                            /\ UNCHANGED pending
                       ELSE /\ SetProc(p, Respond(pr, LetterResponse(ver, l)))
                            /\ pending' =
                                 Issue(Issue(pending,
                                             ReadUpdate(l.id, l.read_count + 1)),
                                       StatUpdate("total_reads"))
    /\ tally' = IF dbUp /\ SelectActive(letters, proc[p].req.code, now) # {}
                THEN [tally EXCEPT !.fetches = @ + 1] ELSE tally
    /\ UNCHANGED <<fault, ver, now, dbUp, letters, nextId, stats, reqCount>>

\* UpdRead without the try/catch around the update: a failure reaches the
\* handler's outer catch
UpdReadUncaught(p) ==
    /\ proc[p].pc = "upd_read"
    /\ IF dbUp
       THEN /\ letters' = BumpReadCount(letters, proc[p].letter.id, now)
            /\ SetProc(p, [proc[p] EXCEPT !.pc = "stat_reads"])
       ELSE /\ SetProc(p, Throw(ver, [proc[p] EXCEPT !.g_upd = "failed"],
                                StoreFault))
            /\ UNCHANGED letters
    /\ tally' = IF dbUp THEN NoteLate(tally, proc[p].letter.id, letters)
                ELSE tally
    /\ UNCHANGED <<fault, ver, now, dbUp, nextId, stats, pending, reqCount,
                   hist>>

\* part_002: try { await sql`UPDATE letters SET read_count = read_count + 1`
\* ...: when it throws, the total_reads update of the same try is skipped
UpdRead(p) ==
    /\ proc[p].pc = "upd_read"
    /\ IF dbUp
       THEN /\ letters' = BumpReadCount(letters, proc[p].letter.id, now)
            /\ SetProc(p, [proc[p] EXCEPT !.pc = "stat_reads"])
       ELSE /\ SetProc(p, Respond([proc[p] EXCEPT !.g_upd = "failed"],
                                  LetterResponse(ver, proc[p].letter)))
            /\ UNCHANGED letters
    /\ tally' = IF dbUp THEN NoteLate(tally, proc[p].letter.id, letters)
                ELSE tally
    /\ UNCHANGED <<fault, ver, now, dbUp, nextId, stats, pending, reqCount,
                   hist>>

\* part_002: ... await sql`UPDATE stats ... 'total_reads'` } catch
StatReads(p) ==
    /\ proc[p].pc = "stat_reads"
    /\ stats' = IF dbUp THEN StatIncrement(stats, "total_reads") ELSE stats
    /\ SetProc(p, Respond([proc[p] EXCEPT
                              !.g_upd = IF dbUp THEN "ok" ELSE "failed"],
                           LetterResponse(ver, proc[p].letter)))
    /\ UNCHANGED <<fault, tally, ver, now, dbUp, letters, nextId, pending, reqCount, hist>>

\* Delete that, like the lookup, spares the expired letters
DeleteActiveOnly(p) ==
    /\ proc[p].pc = "delete"
    /\ LET gone == {r \in letters : /\ r.code = ToUpperCase(proc[p].req.code)
                                 /\ Active(r, now)}
           seen == IF gone = {} THEN "absent"
                   ELSE IF \A r \in gone : r.expires_at <= now THEN "expired"
                   ELSE "active"
       IN  IF ~dbUp
           THEN /\ SetProc(p, Throw(ver, [proc[p] EXCEPT !.g_seen = "fault",
                                                          !.g_at = now],
                                    StoreFault))
                /\ UNCHANGED <<letters, hist>>
           ELSE /\ letters' = letters \ gone
                /\ hist' = Restrict(hist, letters')
                /\ SetProc(p, Respond([proc[p] EXCEPT !.g_seen = seen,
                                                      !.g_at = now],
                      IF gone = {} THEN Failure(ver, 404, "Letter not found")
                      ELSE [NoResp EXCEPT
                              !.status = 200, !.success = "true",
                              !.message = "Letter deleted successfully"]))
    /\ UNCHANGED <<fault, tally, ver, now, dbUp, nextId, stats, pending, reqCount>>

\* await sql`DELETE FROM letters WHERE code = ${code.toUpperCase()}
\* RETURNING id`
Delete(p) ==
    /\ proc[p].pc = "delete"
    /\ LET gone == {r \in letters : r.code = ToUpperCase(proc[p].req.code)}
           seen == IF gone = {} THEN "absent"
                   ELSE IF \A r \in gone : r.expires_at <= now THEN "expired"
                   ELSE "active"
       IN  IF ~dbUp
           THEN /\ SetProc(p, Throw(ver, [proc[p] EXCEPT !.g_seen = "fault",
                                                          !.g_at = now],
                                    StoreFault))
                /\ UNCHANGED <<letters, hist>>
           ELSE /\ letters' = letters \ gone
                /\ hist' = Restrict(hist, letters')
                /\ SetProc(p, Respond([proc[p] EXCEPT !.g_seen = seen,
                                                      !.g_at = now],
                      IF gone = {} THEN Failure(ver, 404, "Letter not found")
                      ELSE [NoResp EXCEPT
                              !.status = 200, !.success = "true",
                              !.message = "Letter deleted successfully"]))
    /\ UNCHANGED <<fault, tally, ver, now, dbUp, nextId, stats, pending, reqCount>>

\* the store executes a statement that was issued without await; when the
\* store is unreachable the statement fails and .catch() swallows the error
ApplyPending(u) ==
    /\ BagIn(u, pending)
    /\ pending' = Retire(pending, u)
    /\ IF dbUp /\ u.kind = "read"
       THEN letters' = SetReadCount(letters, u.id, u.value, now)
       ELSE UNCHANGED letters
    /\ IF dbUp /\ u.kind = "stat"
       THEN stats' = StatIncrement(stats, u.metric)
       ELSE UNCHANGED stats
    /\ tally' = IF dbUp /\ u.kind = "read"
                THEN NoteLate(tally, u.id, letters) ELSE tally
    /\ UNCHANGED <<fault, ver, now, dbUp, nextId, reqCount, proc, hist>>

\* the clock advances by TickStep days
Tick ==
    /\ now + TickStep <= MaxTime
    /\ now' = now + TickStep
    /\ UNCHANGED <<fault, tally, ver, dbUp, letters, nextId, stats, pending, reqCount, proc,
                   hist>>

StoreFails ==
    /\ dbUp
    /\ dbUp' = FALSE
    /\ \E m \in StoreMessages : fault' = m
    /\ UNCHANGED <<tally, ver, now, letters, nextId, stats, pending, reqCount,
                   proc, hist>>

StoreRecovers ==
    /\ ~dbUp
    /\ dbUp' = TRUE
    /\ fault' = ""
    /\ UNCHANGED <<tally, ver, now, letters, nextId, stats, pending, reqCount,
                   proc, hist>>

\* ------------------------------------------------------ the requests sent
CodeA == Repeat("A", CodeLen)

Post(s, c, n) == Request("POST", s, c, n, NoCode)

Get(k) == Request("GET", Undefined, Undefined, Undefined, k)

Posts == {Post(Str("Hi", 1, 2, 0), Str("Hello there", 0, 11, 1),
               Str("Sam", 0, 3, 0))}

Gets == {Get(Repeat("a", CodeLen))}

Deletes == {Request("DELETE", Undefined, Undefined, Undefined, CodeA)}

Requests == Posts \cup Gets \cup Deletes

Init ==
    /\ ver \in Versions
    /\ now = 0
    /\ dbUp = TRUE
    /\ letters = {}
    /\ nextId = 1
    /\ stats = [m \in {"total_letters", "total_reads"} |-> 0]
    /\ pending = EmptyBag
    /\ reqCount = 0
    /\ proc = [p \in Procs |-> IdleProc]
    /\ hist = [i \in {} |-> 0]
    /\ tally = NoTally
    /\ fault = ""

\* the statements of the handlers, for the handlers of the processes ps
Handlers(ps) ==
    \/ \E p \in ps : Conn(p)
    \/ \E p \in ps : Cleanup(p)
    \/ \E p \in ps : Check(p)
    \/ \E p \in ps : Insert(p)
    \/ \E p \in ps : StatLetters(p)
    \/ \E p \in ps : Lookup(p)
    \/ \E p \in ps : UpdRead(p)
    \/ \E p \in ps : StatReads(p)
    \/ \E p \in ps : Delete(p)
    \/ \E u \in BagToSet(pending) : ApplyPending(u)

\* concurrent clients against a reachable store
Next ==
    \/ \E p \in Procs, r \in Requests : Start(p, r)
    \/ Handlers(Procs)
    \/ Tick

Spec == Init /\ [][Next]_vars

\* one client at a time against a store that fails and recovers
NextFault ==
    \/ \E r \in Requests : Start(1, r)
    \/ Handlers({1})
    \/ StoreFails
    \/ StoreRecovers

SpecFault == Init /\ [][NextFault]_vars

\* a POST with its body drawn from the edges of the validation, beside a
\* second POST in flight
WideSubjects ==
    {Undefined, Str("", 0, 0, 0), Str(" ", 1, 0, 0), Str("s", 0, 1, 0),
     Str("s", 0, MaxSubject, 0), Str("s", 0, MaxSubject + 1, 0),
     Str("s", 1, MaxSubject - 1, 0), Str("s", 1, MaxSubject, 0)}

WideContents ==
    {Undefined, Str(" ", 2, 0, 0), Str("c", 0, 1, 0),
     Str("c", 0, MaxContent, 0), Str("c", 0, MaxContent + 1, 0),
     Str("c", 0, MaxContent - 1, 1)}

WideSenders ==
    {Undefined, Str("", 0, 0, 0), Str(" ", 1, 0, 0), Str("n", 0, 3, 1),
     Str("n", 0, MaxSender, 0), Str("n", 0, MaxSender + 1, 0),
     Str("n", 1, MaxSender, 1)}

WidePosts ==
    {Post(s, c, n) : s \in WideSubjects, c \in WideContents, n \in WideSenders}

InitInput ==
    /\ ver \in Versions
    /\ now = 0
    /\ dbUp = TRUE
    /\ letters = {}
    /\ nextId = 1
    /\ stats = [m \in {"total_letters", "total_reads"} |-> 0]
    /\ pending = EmptyBag
    /\ reqCount = 2
    /\ \E r \in WidePosts, q \in Posts :
          \E np \in Entry(ver, [IdleProc EXCEPT !.req = r]),
             nq \in Entry(ver, [IdleProc EXCEPT !.req = q]) :
             proc = [p \in Procs |-> IF p = 1 THEN np ELSE nq]
    /\ hist = [i \in {} |-> 0]
    /\ tally = NoTally
    /\ fault = ""

NextInput ==
    \/ \E p \in Procs : Conn(p)
    \/ \E p \in Procs : Cleanup(p)
    \/ \E p \in Procs : Check(p)
    \/ \E p \in Procs : Insert(p)
    \/ \E p \in Procs : StatLetters(p)

SpecInput == InitInput /\ [][NextInput]_vars

\* the same POSTs against a store that fails and recovers, with the updates
\* that were not awaited executed at any later time
NextCreate ==
    \/ NextInput
    \/ \E u \in BagToSet(pending) : ApplyPending(u)
    \/ StoreFails
    \/ StoreRecovers

\* a body that passes the validation, one that fails it and one whose
\* sender name is longer than the column
CreatePosts ==
    Posts \cup {Post(Str(" ", 1, 0, 0), Str("c", 0, 1, 0), Undefined),
                Post(Str("s", 0, 1, 0), Str("c", 0, 1, 0),
                     Str("n", 0, MaxSender + 1, 0))}

InitCreate ==
    /\ ver \in Versions
    /\ now = 0
    /\ dbUp = TRUE
    /\ letters = {}
    /\ nextId = 1
    /\ stats = [m \in {"total_letters", "total_reads"} |-> 0]
    /\ pending = EmptyBag
    /\ reqCount = 2
    /\ \E r \in CreatePosts, q \in Posts :
          \E np \in Entry(ver, [IdleProc EXCEPT !.req = r]),
             nq \in Entry(ver, [IdleProc EXCEPT !.req = q]) :
             proc = [p \in Procs |-> IF p = 1 THEN np ELSE nq]
    /\ hist = [i \in {} |-> 0]
    /\ tally = NoTally
    /\ fault = ""

SpecCreate == InitCreate /\ [][NextCreate]_vars

\* fetches with the code drawn from the edges of the GET validation, against
\* a store that holds the letter of one completed create
WideCodes ==
    {NoCode, CodeA, Repeat("a", CodeLen), <<"A", "a", "A", "a", "A", "A">>,
     Repeat("z", CodeLen), Repeat("A", CodeLen - 1), Repeat("a", CodeLen + 1),
     <<"A", "A", "A", "A", "A", "-">>}

WideGets == {Get(k) : k \in WideCodes}

InitFetch ==
    /\ ver \in Versions
    /\ now = 0
    /\ dbUp = TRUE
    /\ \E q \in Posts :
          LET row == NewRow(ver, [IdleProc EXCEPT !.req = q, !.code = CodeA],
                            1, 0)
          IN  /\ letters = {row}
              /\ hist = [i \in {1} |-> [req |-> q, row |-> row,
                                         lookups |-> 0, readers |-> {}]]
    /\ nextId = 2
    /\ stats = [m \in {"total_letters", "total_reads"} |->
                  IF m = "total_letters" THEN 1 ELSE 0]
    /\ pending = EmptyBag
    /\ reqCount = 1
    /\ proc = [p \in Procs |-> IdleProc]
    /\ tally = [NoTally EXCEPT !.creates = 1]
    /\ fault = ""

NextFetch ==
    \/ \E p \in Procs, r \in WideGets : Start(p, r)
    \/ \E p \in Procs : Conn(p)
    \/ \E p \in Procs : Cleanup(p)
    \/ \E p \in Procs : Lookup(p)
    \/ \E p \in Procs : UpdRead(p)
    \/ \E p \in Procs : StatReads(p)
    \/ \E u \in BagToSet(pending) : ApplyPending(u)
    \/ Tick

SpecFetch == InitFetch /\ [][NextFetch]_vars

\* one client sending any requests, one after the other, against a store
\* that holds the letter of one completed create; the updates that were not
\* awaited are executed at any later time
InitLate ==
    /\ ver \in Versions
    /\ now = 0
    /\ dbUp = TRUE
    /\ \E q \in Posts :
          LET row == NewRow(ver, [IdleProc EXCEPT !.req = q, !.code = CodeA],
                            1, 0)
          IN  /\ letters = {row}
              /\ hist = [i \in {1} |-> [req |-> q, row |-> row,
                                         lookups |-> 0, readers |-> {}]]
    /\ nextId = 2
    /\ stats = [m \in {"total_letters", "total_reads"} |->
                  IF m = "total_letters" THEN 1 ELSE 0]
    /\ pending = EmptyBag
    /\ reqCount = 0
    /\ proc = [p \in Procs |-> IdleProc]
    /\ tally = [NoTally EXCEPT !.creates = 1]
    /\ fault = ""

NextLate ==
    \/ \E r \in Requests : Start(1, r)
    \/ Handlers({1})
    \/ Tick

SpecLate == InitLate /\ [][NextLate]_vars

\* ------------------------------ letterService of src/utils/supabase.ts
\* The browser-side service talks to the same tables.  Its methods return a
\* value or throw; a thrown error is kept as a response of status 0.
ClientVer == "supabase_ts"

ClientThrow(pr, e) ==
    Respond(pr, [NoResp EXCEPT !.error = e.message, !.errcode = e.code])

\* the object handed to .insert(): expires_at is computed by the caller as
\* new Date(Date.now() + 30 * 24 * 60 * 60 * 1000), at the time t at which
\* generateUniqueCode has returned
ClientPayload(pr, t) ==
    [NoRow EXCEPT !.code = pr.code, !.subject = Trim(pr.req.subject),
                  !.content = Trim(pr.req.content),
                  !.sender_name = CleanSenderName(ClientVer,
                                                  pr.req.senderName),
                  !.expires_at = t + TTLDays]

\* after the do-while loop of letterService.generateUniqueCode
ClientAfterLoop(pr, t) ==
    IF pr.attempts >= MaxAttempts
    THEN {[ClientThrow(pr, Exhausted(ClientVer)) EXCEPT
             !.g_gen = "exhausted"]}
    ELSE {[pr EXCEPT !.pc = "insert", !.g_gen = "returned",
                     !.letter = ClientPayload(pr, t)]}

\* if (error) throw error; if (data.length === 0) break;
\* } while (attempts < 10)
ClientAfterCheck(pr, outcome, t) ==
    CASE outcome = "free" -> ClientAfterLoop(pr, t)
      [] outcome = "taken" ->
           IF pr.attempts < MaxAttempts THEN GenDraw(pr)
           ELSE ClientAfterLoop(pr, t)
      [] OTHER -> {[ClientThrow(pr, StoreFault) EXCEPT !.g_gen = "error"]}

\* the row the store makes of the payload: id from the sequence, created_at
\* DEFAULT NOW(), read_count DEFAULT 0
ClientRow(payload, id, t) ==
    [payload EXCEPT !.id = id, !.created_at = t, !.read_count = 0,
                    !.last_read_at = -1]

\* letterService.sendLetter up to the first existence check
SendLetter(p, r) ==
    /\ proc[p].pc \in {"idle", "done"}
    /\ reqCount < MaxReqs
    /\ reqCount' = reqCount + 1
    /\ LET pr == [IdleProc EXCEPT !.req = r]
           e == ValidatePost(ClientVer, r.subject, r.content)
       IN  IF e # ""
           THEN SetProc(p, ClientThrow(pr, [code |-> "", message |-> e]))
           ELSE \E np \in GenDraw(pr) : SetProc(p, np)
    /\ UNCHANGED <<fault, tally, ver, now, dbUp, letters, nextId, stats,
                   pending, hist>>

\* await supabase.from('letters').select('code').eq('code', code).limit(1)
ClientCheck(p) ==
    /\ proc[p].pc = "check"
    /\ LET outcome == IF ~dbUp THEN "error"
                      ELSE IF \E r \in letters : r.code = proc[p].code
                      THEN "taken" ELSE "free"
           pr == [proc[p] EXCEPT
                    !.g_checks = @ + 1,
                    !.g_last = outcome,
                    !.g_chk = proc[p].code,
                    !.g_hadTaken = @ \/ outcome = "taken",
                    !.g_hadError = @ \/ outcome = "error"]
       IN  \E np \in ClientAfterCheck(pr, outcome, now) : SetProc(p, np)
    /\ UNCHANGED <<fault, tally, ver, now, dbUp, letters, nextId, stats,
                   pending, reqCount, hist>>

\* await supabase.from('letters').insert([...]).select().single(), then
\* the increment_stat call that is not awaited, then return {code, id}
ClientInsert(p) ==
    /\ proc[p].pc = "insert"
    /\ LET row == ClientRow(proc[p].letter, nextId, now)
           out == InsertOutcome(dbUp, letters, row)
           after == IF out = "ok" THEN letters \cup {row} ELSE letters
           pr == [proc[p] EXCEPT !.attempts = 0, !.g_draws = 0, !.g_checks = 0,
                                 !.g_hadTaken = FALSE, !.g_hadError = FALSE,
                                 !.g_last = "none", !.g_chk = NoCode,
                                 !.g_ins = out,
                                 !.g_made = IF out = "ok" THEN row ELSE NoRow,
                                 !.g_added = Cardinality(after)
                                             - Cardinality(letters)]
       IN  /\ nextId' = IF out = "fault" THEN nextId ELSE nextId + 1
           /\ letters' = after
           /\ hist' = IF out = "ok"
                      THEN [i \in Ids(after) |->
                              IF i = row.id
                              THEN [req |-> proc[p].req, row |-> row,
                                    lookups |-> 0, readers |-> {}]
                              ELSE hist[i]]
                      ELSE hist
           /\ tally' = IF out = "ok"
                       THEN [tally EXCEPT !.creates = @ + 1] ELSE tally
           /\ CASE out = "fault" ->
                     /\ SetProc(p, ClientThrow(pr, StoreFault))
                     /\ UNCHANGED pending
                [] out = "toolong" ->
                     /\ SetProc(p, ClientThrow(pr, ValueTooLong))
                     /\ UNCHANGED pending
                [] out = "dup" ->
                     /\ SetProc(p, ClientThrow(pr, UniqueViolation))
                     /\ UNCHANGED pending
                [] OTHER ->
                     /\ SetProc(p, Respond(pr, [NoResp EXCEPT
                                                  !.status = 200,
                                                  !.code = pr.code,
                                                  !.id = row.id]))
                     /\ pending' = Issue(pending, StatUpdate("total_letters"))
    /\ UNCHANGED <<fault, ver, now, dbUp, stats, reqCount>>

ClientPosts ==
    Posts \cup {Post(Str(" ", 1, 0, 0), Str("c", 0, 1, 0), Undefined)}

InitClient ==
    /\ ver = ClientVer
    /\ now = 0
    /\ dbUp = TRUE
    /\ letters = {}
    /\ nextId = 1
    /\ stats = [m \in {"total_letters", "total_reads"} |-> 0]
    /\ pending = EmptyBag
    /\ reqCount = 0
    /\ proc = [p \in Procs |-> IdleProc]
    /\ hist = [i \in {} |-> 0]
    /\ tally = NoTally
    /\ fault = ""

\* one browser sending letters through letterService, against a store that
\* fails and recovers
NextClient ==
    \/ \E r \in ClientPosts : SendLetter(1, r)
    \/ ClientCheck(1)
    \/ ClientInsert(1)
    \/ \E u \in BagToSet(pending) : ApplyPending(u)
    \/ Tick
    \/ StoreFails
    \/ StoreRecovers

SpecClient == InitClient /\ [][NextClient]_vars


\* ------------------------------------------------------------------ claims
Done(p, m) == proc[p].pc = "done" /\ proc[p].req.method = m

\* C1: in every reachable state, under any interleaving of create, fetch,
\* delete and cleanup requests, no two letters of the store have the same
\* code.
CodesUnique ==
    \A r1 \in letters : \A r2 \in letters : r1.code = r2.code => r1 = r2

\* C1's case: two letters are stored and an insert of a code that had passed
\* its existence check was refused by the unique constraint
CodesUniqueWitness ==
    /\ Cardinality(letters) = 2
    /\ \E p \in Procs : proc[p].g_ins = "dup"

\* C2: a fetch whose lookup is the first one after the letter's insert, at the
\* time of the insert and with the store reachable, succeeds and returns the
\* trimmed subject and content of the create, the stored senderName and
\* readCount = 1.
FetchAfterCreate ==
    \A p \in Procs :
       (Done(p, "GET") /\ proc[p].g_first) =>
          /\ proc[p].resp.status = 200
          /\ proc[p].resp.code = ToUpperCase(proc[p].req.code)
          /\ proc[p].resp.subject = Trim(proc[p].g_from.subject)
          /\ proc[p].resp.content = Trim(proc[p].g_from.content)
          /\ proc[p].resp.senderName = proc[p].g_made.sender_name
          /\ proc[p].resp.readCount = 1

\* C2's case: such a fetch has answered, for a letter whose subject and
\* content were sent with surrounding whitespace and via a lowercase code
FetchAfterCreateWitness ==
    \E p \in Procs :
       /\ Done(p, "GET") /\ proc[p].g_first
       /\ proc[p].resp.status = 200
       /\ proc[p].req.code # proc[p].resp.code
       /\ Length(proc[p].g_from.subject) > Length(proc[p].resp.subject)

\* C3: when one client fetches an active letter N times, one call after the
\* other, and nobody else fetches it, the N-th call returns readCount = N.
NthFetchReturnsN ==
    \A p \in Procs :
       (Done(p, "GET") /\ proc[p].resp.status = 200 /\ proc[p].g_solo) =>
          proc[p].resp.readCount = proc[p].g_nth

\* C4: fetch returns a letter only if its expiresAt is strictly greater than
\* the time of the lookup; a lookup of an expired row that is still stored
\* gets the same not-found response as a lookup of a code that is not stored.
ExpiredLikeAbsent ==
    /\ \A p \in Procs :
          (Done(p, "GET") /\ proc[p].g_seen \in {"absent", "expired", "active"}) =>
             /\ proc[p].resp.status = 200 => proc[p].letter.expires_at > proc[p].g_at
             /\ proc[p].g_seen \in {"absent", "expired"} =>
                   /\ proc[p].resp.status = 404
                   /\ proc[p].resp.error =
                        "Letter not found. It may have expired or never existed."
    /\ \A p \in Procs : \A q \in Procs :
          (/\ Done(p, "GET") /\ proc[p].g_seen = "expired"
           /\ Done(q, "GET") /\ proc[q].g_seen = "absent") =>
             proc[p].resp = proc[q].resp

\* C4's case: one fetch found the row expired and still stored, another
\* found no row, and both have answered
ExpiredLikeAbsentWitness ==
    \E p \in Procs : \E q \in Procs :
       /\ Done(p, "GET") /\ proc[p].g_seen = "expired"
       /\ Done(q, "GET") /\ proc[q].g_seen = "absent"
       /\ proc[p].resp.status = 404

\* C5: generateUnique returns the first generated code whose existence check
\* finds no match, whatever its position k in 1..10, and fails with the
\* exhaustion error only when the last (10th) code was found in the store too.
GenReturnsFirstFree ==
    \A p \in Procs :
       /\ (proc[p].g_gen # "none" /\ proc[p].g_last = "free") =>
             (proc[p].g_gen = "returned" /\ proc[p].pc = "insert")
       /\ proc[p].g_gen = "exhausted" => proc[p].g_last = "taken"

\* C6: every code generateUnique returns is the code of its last existence
\* check, and that check completed without error and found no letter, also
\* when earlier checks found a letter or raised store errors.
GenReturnsCheckedCode ==
    \A p \in Procs :
       proc[p].pc = "insert" =>
          /\ proc[p].g_gen = "returned"
          /\ proc[p].g_chk = proc[p].code
          /\ proc[p].g_last = "free"

\* C6's case: a code is returned after an earlier check collided and an
\* earlier check raised a store error
GenReturnsCheckedCodeWitness ==
    \E p \in Procs :
       /\ proc[p].pc = "insert"
       /\ proc[p].g_hadTaken
       /\ proc[p].g_hadError

\* C7: generateUnique calls generate at most 10 times and checks the store at
\* most 10 times: while a check is awaited it is the check of the latest of
\* at most 10 draws, so at most 10 checks complete before it returns or throws.
GenBounded ==
    \A p \in Procs :
       /\ proc[p].g_draws <= MaxAttempts
       /\ proc[p].g_checks <= MaxAttempts
       /\ proc[p].pc = "check" => proc[p].g_checks = proc[p].g_draws - 1
       /\ proc[p].g_gen \in {"exhausted", "error"} => proc[p].pc = "done"

\* C7's case: generateUnique has ended after 10 draws and 10 checks, some of
\* which raised store errors
GenBoundedWitness ==
    \E p \in Procs :
       /\ proc[p].g_gen = "exhausted"
       /\ proc[p].g_draws = MaxAttempts
       /\ proc[p].g_checks = MaxAttempts
       /\ proc[p].g_hadError

\* the subject or content is absent, empty or whitespace only
Blank(s) == ~s.def \/ s.body = 0

InvalidBody(r) ==
    \/ Blank(r.subject) \/ Blank(r.content)
    \/ Length(r.subject) > MaxSubject
    \/ Length(r.content) > MaxContent

\* C8: a POST whose subject or content is absent, empty or whitespace only,
\* or longer than 200 resp. 5000 characters, is answered 400 before any code
\* is generated; every other body passes the validation.
PostValidation ==
    \A p \in Procs :
       (proc[p].req.method = "POST" /\ proc[p].pc \notin {"conn", "cleanup"}) =>
          IF InvalidBody(proc[p].req)
          THEN /\ proc[p].pc = "done"
               /\ proc[p].resp.status = 400
               /\ proc[p].g_gen = "none" /\ proc[p].code = NoCode
          ELSE proc[p].resp.status # 400

\* the handlers C9 cites
CreateHandlers == {"part_000", "part_001"}

CreateSucceeded(p) ==
    /\ proc[p].resp.status = 201
    /\ proc[p].resp.success = "true"
    /\ CodeRegex(proc[p].resp.code)
    /\ proc[p].resp.id > 0
    /\ proc[p].g_added = 1
    /\ \E r \in letters :
          r.id = proc[p].resp.id /\ r.code = proc[p].resp.code /\ r.read_count = 0

\* a valid body, a code from generateUnique and an insert that reached the store
CreateReachedInsert(p) ==
    /\ ver \in CreateHandlers
    /\ Done(p, "POST")
    /\ ~InvalidBody(proc[p].req)
    /\ proc[p].g_gen = "returned"
    /\ proc[p].g_ins # "fault"

ExpectedSender(s) ==
    IF ~s.def \/ s.body = 0 THEN Placeholder
    ELSE Str(s.txt, 0, Min(s.body, MaxSender), 0)

\* C10: the stored senderName is "Anonymous Friend" when the input is absent,
\* empty or whitespace only, else the trimmed input cut to 100 characters,
\* and it is never the empty string.
SenderNameDerived ==
    \A r \in letters :
       /\ r.sender_name = ExpectedSender(hist[r.id].req.senderName)
       /\ Length(r.sender_name) > 0

\* the response of a create that lost the race for its code
CollisionResponse(r) ==
    /\ r.status \in {409, 500}
    /\ r.error = "Code collision detected, please try again"
    /\ r.code = NoCode

\* total_letters increments issued so far, executed or not
LettersIncrementsIssued ==
    stats["total_letters"] + CopiesIn(StatUpdate("total_letters"), pending)

\* both creates passed the existence check for one code, their inserts were
\* executed (accepted, or refused by the unique constraint) and both answered
RacedCreates(p, q) ==
    /\ p # q
    /\ Done(p, "POST") /\ proc[p].g_gen = "returned"
    /\ Done(q, "POST") /\ proc[q].g_gen = "returned"
    /\ proc[p].code = proc[q].code
    /\ proc[p].g_ins \in {"ok", "dup"}
    /\ proc[q].g_ins \in {"ok", "dup"}

\* C11: when two concurrent creates both passed the existence check for the
\* same code, exactly one of them inserted its letter and answered 201; the
\* other answered with the code-collision response (409 or 500), inserted no
\* letter, left the winner's letter as it was inserted and issued no
\* total_letters increment.
RaceHasOneWinner ==
    \A p \in Procs : \A q \in Procs :
       (RacedCreates(p, q) /\ proc[p].g_ins # "dup") =>
          /\ proc[p].g_ins = "ok" /\ proc[p].resp.status = 201
          /\ proc[q].g_ins = "dup" /\ proc[q].g_added = 0
          /\ CollisionResponse(proc[q].resp)
          /\ \E r \in letters :
                /\ r.id = proc[p].resp.id /\ r.code = proc[p].code
                /\ r = hist[r.id].row
          /\ Cardinality(letters) = 1
          /\ LettersIncrementsIssued = 1

\* C11's case: two creates raced for one code and the loser has answered
RaceHasOneWinnerWitness ==
    \E p \in Procs : \E q \in Procs :
       /\ RacedCreates(p, q)
       /\ proc[p].g_ins = "ok" /\ proc[q].g_ins = "dup"
       /\ proc[q].resp.status \in {409, 500}

\* C12: a failure of the total_letters increment, of the total_reads
\* increment or of the read-count update does not change the response: a
\* create whose insert succeeded answers 201 with its code and the id of the
\* inserted row, and a fetch whose lookup found the letter answers 200 with
\* the snapshot of the row it read, whether the updates succeeded or failed.
UpdateFailureSwallowed ==
    \A p \in Procs :
       /\ (Done(p, "POST") /\ proc[p].g_ins = "ok") =>
             /\ proc[p].resp = CreatedResponse(proc[p], proc[p].g_made.id)
             /\ proc[p].resp.status = 201
             /\ proc[p].resp.code = proc[p].g_made.code
       /\ (Done(p, "GET") /\ proc[p].g_seen = "active") =>
             /\ proc[p].resp = LetterResponse(ver, proc[p].letter)
             /\ proc[p].resp.status = 200
             /\ proc[p].resp.subject = proc[p].g_made.subject
             /\ proc[p].resp.content = proc[p].g_made.content
             /\ proc[p].resp.senderName = proc[p].g_made.sender_name
             /\ proc[p].resp.readCount = proc[p].letter.read_count + 1

\* C12's case: a fetch has answered 200 although its awaited read-count
\* update failed
UpdateFailureSwallowedWitness ==
    \E p \in Procs :
       /\ Done(p, "GET") /\ proc[p].g_seen = "active"
       /\ proc[p].g_upd = "failed"
       /\ proc[p].resp.status = 200

\* C13: create and fetch never wait for their secondary updates: as soon as
\* the insert (for create) or the lookup (for fetch) has succeeded, the
\* request has its response; in no state is it still waiting for a stat
\* increment or a read-count update to complete.
NoWaitForUpdates ==
    \A p \in Procs :
       (\/ proc[p].g_ins = "ok"
        \/ proc[p].req.method = "GET" /\ proc[p].g_seen = "active") =>
          proc[p].pc = "done"

\* the letter a fetch answered with
SameLetter(r1, r2) ==
    /\ r1.id = r2.id /\ r1.code = r2.code
    /\ r1.subject = r2.subject /\ r1.content = r2.content
    /\ r1.senderName = r2.senderName /\ r1.dateCreated = r2.dateCreated

\* C14: when the uppercased code of a fetch is the code of a stored active
\* letter, the fetch answers 200 with that letter, whatever the case of the
\* letters of the code it sent: it returns the same letter as a fetch of the
\* uppercase code.
FetchCaseInsensitive ==
    \A p \in Procs :
       (Done(p, "GET") /\ proc[p].g_seen = "active") =>
          /\ proc[p].resp.status = 200
          /\ proc[p].resp.code = ToUpperCase(proc[p].req.code)
          /\ \A q \in Procs :
                (/\ Done(q, "GET") /\ proc[q].g_seen = "active"
                 /\ proc[q].req.code = ToUpperCase(proc[p].req.code)) =>
                   SameLetter(proc[p].resp, proc[q].resp)

\* C14's case: a fetch of a code with lowercase and uppercase letters and a
\* fetch of the uppercase code have both answered with the letter
FetchCaseInsensitiveWitness ==
    \E p \in Procs : \E q \in Procs :
       /\ Done(p, "GET") /\ proc[p].g_seen = "active"
       /\ Done(q, "GET") /\ proc[q].g_seen = "active"
       /\ proc[p].req.code = <<"A", "a", "A", "a", "A", "A">>
       /\ proc[q].req.code = CodeA
       /\ proc[p].resp.status = 200 /\ proc[q].resp.status = 200
       /\ proc[p].resp.id = proc[q].resp.id

\* a step in which the fetch of p answers with a validation error or not-found
FailedFetchStep(p) ==
    /\ proc'[p] # proc[p]
    /\ proc'[p].pc = "done" /\ proc'[p].req.method = "GET"
    /\ proc'[p].resp.status \in {400, 404}

\* C15: a fetch that fails with a validation error or with not-found issues
\* no read-count/last-read update and no total_reads increment: the step in
\* which it answers modifies no letter, leaves the stats and the statements
\* in flight as they were, and the request has counted no read before.
FailedFetchNoEffect ==
    /\ [](\A p \in Procs :
            (Done(p, "GET") /\ proc[p].resp.status \in {400, 404}) =>
               proc[p].g_nth = 0 /\ proc[p].g_upd = "none")
    /\ [][\A p \in Procs :
            FailedFetchStep(p) =>
               /\ letters' \subseteq letters
               /\ stats' = stats
               /\ pending' = pending]_vars

\* C15's case: one fetch has failed its validation and another was answered
\* not-found for a stored letter that had expired
FailedFetchNoEffectWitness ==
    \E p \in Procs : \E q \in Procs :
       /\ Done(p, "GET") /\ proc[p].resp.status = 400
       /\ Done(q, "GET") /\ proc[q].resp.status = 404
       /\ proc[q].g_seen = "expired"
       /\ stats["total_reads"] = 0 /\ pending = EmptyBag

\* the letters that have the code of p's request, uppercased
WithCodeOf(p) == {r \in letters : r.code = ToUpperCase(proc[p].req.code)}

\* C16: the DELETE statement of a delete with a well-formed code, executed
\* by a reachable store, removes the letter that has the uppercased code,
\* active or expired, and no other letter, and answers 200; when no letter
\* has the code it answers 404 and leaves the store as it was.  Afterwards no
\* letter has the code, and a fetch answers 200 only with a letter that is in
\* the store, so that the code is not found until a create inserts it again.
DeleteRemovesExactly ==
    /\ [][\A p \in Procs :
            (/\ proc[p].pc = "delete" /\ proc'[p].pc = "done"
             /\ CodeRegex(ToUpperCase(proc[p].req.code))
             /\ dbUp) =>
               /\ letters' = letters \ WithCodeOf(p)
               /\ \A r \in letters' : r.code # ToUpperCase(proc[p].req.code)
               /\ IF WithCodeOf(p) = {}
                  THEN /\ proc'[p].resp.status = 404
                       /\ proc'[p].resp.error = "Letter not found"
                       /\ letters' = letters
                  ELSE /\ proc'[p].resp.status = 200
                       /\ proc'[p].resp.success = "true"
                       /\ Cardinality(letters') = Cardinality(letters) - 1]_vars
    /\ [][\A p \in Procs :
            (/\ proc[p].pc = "lookup" /\ proc'[p].pc # "lookup"
             /\ proc'[p].letter # NoRow) =>
               /\ proc'[p].letter \in WithCodeOf(p)
               /\ proc'[p].resp.status \in {0, 200}]_vars
    /\ [](\A p \in Procs :
            (Done(p, "GET") /\ proc[p].g_seen = "absent") =>
               proc[p].resp.status = 404)

\* C16's case: a delete has removed an expired letter and left in the store
\* another letter that was there before
DeleteRemovesExactlyWitness ==
    \E p \in Procs :
       /\ Done(p, "DELETE") /\ proc[p].resp.status = 200
       /\ proc[p].g_seen = "expired"
       /\ \E r \in letters : r.created_at < proc[p].g_at

\* a step in which p's request runs the DELETE of cleanupExpiredLetters
CleanupStep(p) == proc[p].pc = "cleanup" /\ proc'[p].pc # "cleanup"

\* C17: the delete of cleanupExpired removes only letters whose expires_at is
\* strictly before the time of the run: every letter with expires_at >= now,
\* and so every active letter, is still stored after it with all its fields
\* as before, and the stats are unchanged.
CleanupSparesActive ==
    [][\A p \in Procs :
          CleanupStep(p) =>
             /\ letters' \subseteq letters
             /\ \A r \in letters \ letters' : r.expires_at < now
             /\ \A r \in letters : r.expires_at > now => r \in letters'
             /\ stats' = stats
             /\ pending' = pending]_vars

\* C17's case: a cleanup has removed an expired letter and has left a letter
\* in the store that expires at the very time of the run
CleanupSparesActiveWitness ==
    \E p \in Procs :
       /\ proc[p].g_cl = "ok" /\ proc[p].g_swept = 1
       /\ \E r \in letters : r.created_at < now /\ r.expires_at = now

\* C18: whenever the delete of cleanupExpired is executed by a reachable
\* store, no letter with expires_at < now is left in the store; every letter
\* has expires_at = created_at + 30 days.
CleanupRemovesExpired ==
    /\ [](\A r \in letters : r.expires_at = r.created_at + TTLDays)
    /\ [][\A p \in Procs :
            (CleanupStep(p) /\ dbUp) =>
               \A r \in letters' : ~(r.expires_at < now)]_vars

\* C18's case: one run of the cleanup has removed two expired letters
CleanupRemovesExpiredWitness ==
    \E p \in Procs :
       /\ proc[p].g_cl = "ok" /\ proc[p].g_swept = 2
       /\ letters = {}

\* the handler's locals without the record of the cleanup
Forget(pr) == [pr EXCEPT !.g_cl = "none", !.g_swept = 0]

Quiescent ==
    /\ pending = EmptyBag
    /\ \A p \in Procs : proc[p].pc \in {"idle", "done"}

\* C20: when no request is in progress and every secondary update has been
\* executed, without error, the read_count of every stored letter is the
\* number of successful fetches of that letter.
ReadCountIsFetchCount ==
    Quiescent =>
       \A r \in letters : r.read_count = hist[r.id].lookups

FailuresCarrySuccessFalse ==
    \A p \in Procs :
       (proc[p].pc = "done" /\ proc[p].resp.status >= 400) =>
          /\ proc[p].resp.success = "false"
          /\ proc[p].resp.error # ""

\* the fields of a letter that are set by its insert
FixedFields(r) ==
    [id |-> r.id, code |-> r.code, subject |-> r.subject,
     content |-> r.content, sender_name |-> r.sender_name,
     created_at |-> r.created_at, expires_at |-> r.expires_at]

\* a step that executes the read-count update of a fetch
ReadUpdateStep ==
    \/ \E p \in Procs : proc[p].pc = "upd_read" /\ proc'[p].pc # "upd_read"
    \/ \E u \in BagToSet(pending) :
          u.kind = "read" /\ pending' = Retire(pending, u)

\* C23: the id, code, subject, content, senderName, createdAt and expiresAt
\* of a stored letter are those of its insert for as long as it is stored;
\* a step changes a stored letter only if it executes the read-count update
\* of a fetch, and then only in read_count and last_read_at.
LetterFieldsImmutable ==
    /\ [](\A r \in letters : FixedFields(r) = FixedFields(hist[r.id].row))
    /\ [][\A r \in letters : \A n \in letters' :
            (n.id = r.id /\ n # r) =>
               /\ FixedFields(n) = FixedFields(r)
               /\ ReadUpdateStep]_vars

\* C23's case: a letter that was read at a later time than it was created
\* is stored with its read count updated
LetterFieldsImmutableWitness ==
    \E r \in letters :
       /\ r.read_count >= 1
       /\ r.last_read_at > r.created_at
       /\ FixedFields(r) = FixedFields(hist[r.id].row)

\* a step in which the primary store statement of p's request fails
PrimaryFailureStep(p) ==
    /\ ~dbUp
    /\ proc[p].pc \in {"conn", "lookup", "insert", "delete"}
    /\ proc'[p] # proc[p]

\* C24: when the connectivity test, the lookup, the insert or the delete of
\* a request fails, the request ends in that step with a 5xx response and
\* the store is as before: no letter inserted or removed, no counter changed,
\* no statement issued and no id used, so that a later request finds the
\* store as if the failed request had not been issued.
StoreFailureFatalToRequestOnly ==
    /\ [][\A p \in Procs :
            PrimaryFailureStep(p) =>
               /\ proc'[p].pc = "done"
               /\ proc'[p].resp.status >= 500
               /\ letters' = letters /\ stats' = stats
               /\ pending' = pending /\ nextId' = nextId
               /\ tally' = tally]_vars
    /\ [](\A p \in Procs :
            (proc[p].g_ins = "fault" \/ proc[p].g_seen = "fault") =>
               /\ proc[p].pc = "done" /\ proc[p].resp.status >= 500
               /\ proc[p].g_added = 0)

\* C24's case: the insert of a create failed, the create answered 500, and
\* the store, reachable again, still holds the letter it held
StoreFailureFatalToRequestOnlyWitness ==
    \E p \in Procs :
       /\ Done(p, "POST") /\ proc[p].g_ins = "fault"
       /\ proc[p].resp.status = 500
       /\ dbUp /\ letters # {}

\* a request of p has ended on a failure of the store
EndedOnStoreFailure(p) ==
    /\ proc[p].pc = "done" /\ proc[p].resp.status >= 500
    /\ \/ proc[p].resp.error = "Database connection failed"
       \/ proc[p].g_gen = "error"
       \/ proc[p].g_ins = "fault"
       \/ proc[p].g_seen = "fault"

\* C25: the body of a store-failure response does not depend on the text of
\* the store's error message: it carries none of the store's messages, so
\* that it is the same for every message the store may raise.
StoreFailureBodyGeneric ==
    \A p \in Procs :
       EndedOnStoreFailure(p) => proc[p].resp.message \notin StoreMessages

\* C26: every stored letter is within the bounds of the data model: a
\* subject of 1 to 200 characters, a content of 1 to 5000 characters, a
\* sender name of at most 100 characters, a read count that is not negative.
StoredLettersWithinBounds ==
    \A r \in letters :
       /\ Length(r.subject) >= 1 /\ Length(r.subject) <= MaxSubject
       /\ Length(r.content) >= 1 /\ Length(r.content) <= MaxContent
       /\ Length(r.sender_name) <= MaxSender
       /\ r.read_count >= 0

\* C27: every stored letter has expiresAt exactly createdAt plus 30 days,
\* and a letter has readCount 0 at the moment it is inserted.
InsertedWithTTL ==
    /\ \A r \in letters : r.expires_at = r.created_at + TTLDays
    /\ \A p \in Procs :
          proc[p].g_made # NoRow =>
             /\ proc[p].g_made.expires_at = proc[p].g_made.created_at + TTLDays
             /\ proc[p].g_made.read_count = 0

\* C28: a store error raised by an existence check of generateUniqueCode
\* ends the create request: once a check has failed, the request is over
\* with a 5xx response, so that no further code is drawn and no letter is
\* inserted by it.
CheckErrorFatal ==
    \A p \in Procs :
       proc[p].g_hadError =>
          /\ proc[p].pc = "done"
          /\ proc[p].resp.status >= 500
          /\ proc[p].g_ins = "none"

\* a step with which the create request of p ends in a failure response
FailedCreateStep(p) ==
    /\ proc'[p] # proc[p]
    /\ proc'[p].pc = "done"
    /\ proc'[p].req.method = "POST"
    /\ proc'[p].resp.status >= 400

\* C29: a create that fails (validation error, exhaustion after 10 colliding
\* draws, insert-time collision or store error) has inserted no letter and
\* issued no total_letters increment, and the total_letters increments
\* issued never exceed the number of successful inserts.
FailedCreateNoEffect ==
    /\ [](/\ LettersIncrementsIssued <= tally.creates
          /\ \A p \in Procs :
                (Done(p, "POST") /\ proc[p].resp.status >= 400) =>
                   /\ proc[p].g_added = 0
                   /\ proc[p].g_ins # "ok"
                   /\ proc[p].g_upd = "none")
    /\ [][\A p \in Procs :
            FailedCreateStep(p) =>
               /\ letters' \subseteq letters
               /\ LettersIncrementsIssued' = LettersIncrementsIssued
               /\ tally' = tally]_vars

\* creates have failed at the insert, on a collision and on a store error,
\* beside one that succeeded and whose increment was executed
FailedCreateNoEffectWitness ==
    /\ \E p \in Procs : Done(p, "POST") /\ proc[p].g_ins \in {"dup", "fault"}
    /\ \E p \in Procs : Done(p, "POST") /\ proc[p].g_ins = "ok"
    /\ stats["total_letters"] = 1

\* the stored letters with code c (upper-cased) that expire exactly now
ExpiringNow(c) ==
    {r \in letters : r.code = ToUpperCase(c) /\ r.expires_at = now}

\* C30: a letter whose expiresAt is exactly now is inactive for fetch (the
\* lookup answers not-found and changes nothing) and is not removed by
\* cleanupExpired.
BoundaryLetterInactiveKept ==
    [][\A p \in Procs :
          /\ (/\ proc[p].pc = "lookup" /\ proc'[p] # proc[p]
              /\ ExpiringNow(proc[p].req.code) # {}) =>
                /\ proc'[p].pc = "done"
                /\ proc'[p].resp = NotFoundResponse(ver)
                /\ letters' = letters
                /\ pending' = pending
          /\ CleanupStep(p) =>
                \A r \in letters : r.expires_at = now => r \in letters']_vars

\* a request ran the cleanup and then looked up a letter at the very time
\* of its expiry: it answered 404 and the letter is still stored
BoundaryLetterInactiveKeptWitness ==
    \E p \in Procs :
       /\ Done(p, "GET")
       /\ proc[p].g_cl = "ok"
       /\ proc[p].g_seen = "expired"
       /\ proc[p].g_at = now
       /\ proc[p].resp.status = 404
       /\ ExpiringNow(proc[p].req.code) # {}

\* C31: the stored readCount of a letter never decreases: every step leaves
\* the read_count of every letter that stays stored at its previous value or
\* above, in whatever order the updates of several fetches are executed.
ReadCountNeverDecreases ==
    [][\A r \in letters : \A n \in letters' :
          n.id = r.id => n.read_count >= r.read_count]_vars

\* C32: reads are never over-counted: the stored readCount of a letter is at
\* most the number of successful lookups of that letter so far, and the
\* readCount a fetch returns is at most the number of successful lookups of
\* the letter up to and including its own.
ReadsNeverOverCounted ==
    /\ \A r \in letters : r.read_count <= hist[r.id].lookups
    /\ \A p \in Procs :
          (Done(p, "GET") /\ proc[p].resp.status = 200) =>
             proc[p].resp.readCount <= proc[p].g_nth

\* two fetches of one letter have answered, the second with readCount 2,
\* and both read-count updates have been executed
ReadsNeverOverCountedWitness ==
    /\ \E r \in letters : r.read_count = 2 /\ hist[r.id].lookups = 2
    /\ \E p \in Procs :
          /\ Done(p, "GET") /\ proc[p].resp.status = 200
          /\ proc[p].resp.readCount = 2 /\ proc[p].g_nth = 2

\* a step that executes the read-count update of the letter with id i
ReadUpdateOf(i) ==
    \/ \E p \in Procs :
          /\ proc[p].pc = "upd_read" /\ proc'[p].pc = "stat_reads"
          /\ proc[p].letter.id = i
    \/ \E u \in BagToSet(pending) :
          /\ u.kind = "read" /\ u.id = i
          /\ pending' = Retire(pending, u)

\* C33: the read-count update of a fetch of letter L changes only L.  Ids
\* are never reused, the update creates no row and changes no row with
\* another id; when L is no longer stored it changes no row at all, also
\* when a new letter has been created with the code of L.
ReadUpdateTouchesOnlyItsLetter ==
    /\ [](/\ \A r \in letters : r.id < nextId
          /\ \A u \in BagToSet(pending) : u.kind = "read" => u.id < nextId
          /\ \A l \in tally.late : l.id \notin Ids(letters))
    /\ [][\A i \in 1..nextId :
            ReadUpdateOf(i) =>
               /\ Ids(letters') = Ids(letters)
               /\ \A r \in letters : r.id # i => r \in letters'
               /\ i \notin Ids(letters) => letters' = letters]_vars

\* the update of a fetch of the first letter was executed after that letter
\* had been deleted and a new letter had been created with its code; the
\* new letter is stored as it was inserted
ReadUpdateTouchesOnlyItsLetterWitness ==
    /\ \E l \in tally.late : l.id = 1 /\ CodeA \in l.codes
    /\ \E r \in letters :
          /\ r.code = CodeA /\ r.id > 1
          /\ r = hist[r.id].row

\* a step that executes one increment of the counter m
StatUpdateOf(m) ==
    \/ /\ m = "total_letters"
       /\ \E p \in Procs :
             proc[p].pc = "stat_letters" /\ proc'[p].pc # "stat_letters"
    \/ /\ m = "total_reads"
       /\ \E p \in Procs :
             proc[p].pc = "stat_reads" /\ proc'[p].pc # "stat_reads"
    \/ \E u \in BagToSet(pending) :
          /\ u.kind = "stat" /\ u.metric = m
          /\ pending' = Retire(pending, u)

\* a step of the DELETE branch or of cleanupExpiredLetters
RemovalStep ==
    \E p \in Procs :
       \/ CleanupStep(p)
       \/ proc[p].pc = "delete" /\ proc'[p].pc # "delete"

\* C34: total_letters and total_reads never decrease; a counter changes
\* only when one of its increments is executed, and then by exactly 1,
\* whatever other increments are in progress; delete and cleanupExpired
\* leave both as they were; total_reads never exceeds the successful
\* lookups (nor total_letters the successful inserts).
CountersMonotone ==
    /\ [](/\ stats["total_reads"] <= tally.fetches
          /\ stats["total_letters"] <= tally.creates)
    /\ [][\A m \in {"total_letters", "total_reads"} :
            /\ stats'[m] >= stats[m]
            /\ stats'[m] # stats[m] => StatUpdateOf(m)
            /\ (StatUpdateOf(m) /\ dbUp) => stats'[m] = stats[m] + 1
            /\ RemovalStep => stats'[m] = stats[m]]_vars

\* a letter was created, fetched and deleted; both counters have been
\* incremented and are kept after the delete
CountersMonotoneWitness ==
    /\ letters = {}
    /\ \E p \in Procs : Done(p, "DELETE") /\ proc[p].resp.status = 200
    /\ stats["total_letters"] = 1 /\ stats["total_reads"] = 1

====
